---- MODULE Spec2Model ----
(***************************************************************************)
(* Model of app_final1.py: the movie search / favorites Streamlit app.     *)
(*                                                                         *)
(* Python objects live in heaps keyed by address.  Movie objects are in    *)
(* `heap`; every SingleLinkedList / DoublyLinkedList value carries its own *)
(* node map (address -> node fields), so `next` / `prev` are pointers      *)
(* exactly as in the source.  Objects no longer referenced are dropped     *)
(* from the maps (Python's reference counting).                            *)
(*                                                                         *)
(* Python str values that the code inspects character by character         *)
(* (titles, the title typed for removal) are sequences of Unicode code     *)
(* points; other strings are TLA+ strings.  vote_average is kept in tenths *)
(* (8.8 is 88).                                                            *)
(***************************************************************************)
EXTENDS Integers, Sequences, FiniteSets, TLC

VARIABLES
  USE_API,         \* module global USE_API (fixed for the life of the process)
  heap,            \* Movie objects: address -> Movie fields
  search_results,  \* st.session_state["search_results"] (a SingleLinkedList)
  favorites,       \* st.session_state["favorites"] (a DoublyLinkedList)
  last             \* history: the handler / operation that ran last, its inputs and its outcome

vars == <<USE_API, heap, search_results, favorites, last>>

\* ------------------------------------------------------------------ bounds
\* Most entries the favorites list is let grow to.
MaxFav == 1

\* ------------------------------------------------------------- Python values
\* None as a pointer (SNode.next, DNode.prev/next, list heads, a missing movie).
NULL == 0

\* None as a scalar (trailer_url, user_rating).
None == "None"

EmptyMap == [a \in {} |-> NULL]

\* The address the allocator hands out: the lowest one not in use.
Alloc(used) ==
  CHOOSE a \in 1..(Cardinality(used) + 1) :
    a \notin used /\ \A b \in 1..(Cardinality(used) + 1) : b \notin used => a <= b

Min(a, b) == IF a <= b THEN a ELSE b

\* xs[:n] for n >= 0
Truncate(xs, n) == SubSeq(xs, 1, Min(n, Len(xs)))

\* ------------------------------------------------------------ str methods
\* str.isspace() of one code point (the code points Python treats as whitespace).
IsSpace(c) ==
  c \in ({9, 10, 11, 12, 13, 28, 29, 30, 31, 32, 133, 160, 5760}
         \cup (8192..8202) \cup {8232, 8233, 8239, 8287, 12288})

\* str.lower() of one code point, for the alphabet of the model (ASCII and CJK
\* ideographs: only A-Z have a lower-case form there).
LowerChar(c) == IF c >= 65 /\ c <= 90 THEN c + 32 ELSE c

Lower(s) == [i \in 1..Len(s) |-> LowerChar(s[i])]

RECURSIVE LStrip(_)
LStrip(s) ==
  IF s = <<>> THEN s
  ELSE IF IsSpace(Head(s)) THEN LStrip(Tail(s)) ELSE s

RECURSIVE RStrip(_)
RStrip(s) ==
  IF s = <<>> THEN s
  ELSE IF IsSpace(s[Len(s)]) THEN RStrip(SubSeq(s, 1, Len(s) - 1)) ELSE s

\* str.strip()
Strip(s) == RStrip(LStrip(s))

\* ------------------------------------------------------------------ Movie
\* The Movie dataclass; fields not given take the dataclass defaults.
Movie(id, title, release_date, vote_average) ==
  [id |-> id, title |-> title, release_date |-> release_date,
   vote_average |-> vote_average, overview |-> <<>>, genres |-> <<>>,
   trailer_url |-> None]

\* get_mock_movies(): the five sample records, as values (the caller allocates them).
get_mock_movies ==
  << Movie(1, <<20840, 38754, 21855, 21205>>, "2010-07-16", 88),
     Movie(2, <<21050, 28608, 49, 57, 57, 53>>, "1994-09-23", 93),
     Movie(3, <<23492, 29983, 19978, 27969>>, "2019-05-30", 86),
     Movie(4, <<31070, 38577, 23569, 22899>>, "2001-07-20", 85),
     Movie(5, <<26143, 38555, 25928, 25033>>, "2014-11-07", 86) >>

\* --------------------------------------------------------- SingleLinkedList
\* SingleLinkedList.__init__
SLL_New == [head |-> NULL, node |-> EmptyMap]

\* The node the `while cur.next` loop of insert_end stops at.
RECURSIVE SLL_LastNode(_, _)
SLL_LastNode(node, cur) ==
  IF node[cur].next # NULL THEN SLL_LastNode(node, node[cur].next) ELSE cur

\* A faulty variant: the new node is linked in front of the list.
SLL_InsertFront(list, movie) ==
  LET n == Alloc(DOMAIN list.node)
  IN  [head |-> n, node |-> (n :> [movie |-> movie, next |-> list.head]) @@ list.node]

\* SingleLinkedList.insert_end
SLL_InsertEnd(list, movie) ==
  LET n    == Alloc(DOMAIN list.node)
      new  == [movie |-> movie, next |-> NULL]
  IN  IF list.head = NULL
        THEN [head |-> n, node |-> (n :> new) @@ list.node]
        ELSE LET cur == SLL_LastNode(list.node, list.head)
             IN  [head |-> list.head,
                  node |-> (n :> new) @@ [list.node EXCEPT ![cur].next = n]]

RECURSIVE SLL_Walk(_, _)
SLL_Walk(node, cur) ==
  IF cur = NULL THEN <<>>
  ELSE <<node[cur].movie>> \o SLL_Walk(node, node[cur].next)

\* SingleLinkedList.traverse: the movies (addresses), head first.
SLL_Traverse(list) == SLL_Walk(list.node, list.head)

RECURSIVE SLL_Scan(_, _, _, _)
SLL_Scan(node, cur, i, idx) ==
  IF cur = NULL THEN NULL
  ELSE IF i = idx THEN node[cur].movie
  ELSE SLL_Scan(node, node[cur].next, i + 1, idx)

\* A faulty variant: positions are counted from one.
SLL_GetOneBased(list, idx) == SLL_Scan(list.node, list.head, 1, idx)

\* SingleLinkedList.get_by_index: the movie at idx, or None.
SLL_GetByIndex(list, idx) == SLL_Scan(list.node, list.head, 0, idx)

\* `for m in movies: lst.insert_end(m)`
RECURSIVE SLL_InsertAll(_, _)
SLL_InsertAll(list, ms) ==
  IF ms = <<>> THEN list
  ELSE SLL_InsertAll(SLL_InsertEnd(list, Head(ms)), Tail(ms))

\* --------------------------------------------------------- DoublyLinkedList
\* DoublyLinkedList.__init__
DLL_New == [head |-> NULL, tail |-> NULL, node |-> EmptyMap]

RECURSIVE DLL_Walk(_, _)
DLL_Walk(node, cur) ==
  IF cur = NULL THEN <<>>
  ELSE <<cur>> \o DLL_Walk(node, node[cur].next)

\* DoublyLinkedList.traverse_forward: the nodes (addresses), head first.
DLL_TraverseForward(list) == DLL_Walk(list.node, list.head)

\* The duplicate scan of add: some node from cur on holds a movie with this id.
RECURSIVE DLL_HasId(_, _, _, _)
DLL_HasId(h, node, cur, id) ==
  IF cur = NULL THEN FALSE
  ELSE IF h[node[cur].movie].id = id THEN TRUE
  ELSE DLL_HasId(h, node, node[cur].next, id)

\* DNode.__init__
DNode(movie, user_rating) ==
  [movie |-> movie, user_rating |-> user_rating, prev |-> NULL, next |-> NULL]

\* A faulty variant: the new node's prev is left unset.
DLL_AppendNoPrev(list, movie, user_rating) ==
  LET n == Alloc(DOMAIN list.node)
  IN  IF list.head = NULL
        THEN [head |-> n, tail |-> n,
              node |-> (n :> DNode(movie, user_rating)) @@ list.node]
        ELSE [head |-> list.head, tail |-> n,
              node |-> (n :> DNode(movie, user_rating))
                       @@ [list.node EXCEPT ![list.tail].next = n]]

\* Linking a new node behind the tail (the part of add after the scan).
DLL_Append(list, movie, user_rating) ==
  LET n == Alloc(DOMAIN list.node)
  IN  IF list.head = NULL
        THEN [head |-> n, tail |-> n,
              node |-> (n :> DNode(movie, user_rating)) @@ list.node]
        ELSE [head |-> list.head, tail |-> n,
              node |-> (n :> [DNode(movie, user_rating) EXCEPT !.prev = list.tail])
                       @@ [list.node EXCEPT ![list.tail].next = n]]

\* A faulty variant: add without the duplicate scan.
DLL_AddNoScan(h, list, movie, user_rating) ==
  [ret |-> TRUE, list |-> DLL_Append(list, movie, user_rating)]

\* A faulty variant: the duplicate scan compares titles instead of ids.
DLL_AddByTitle(h, list, movie, user_rating) ==
  IF \E n \in DOMAIN list.node : h[list.node[n].movie].title = h[movie].title
    THEN [ret |-> FALSE, list |-> list]
    ELSE [ret |-> TRUE, list |-> DLL_Append(list, movie, user_rating)]

\* DoublyLinkedList.add: the returned flag and the list afterwards.
DLL_Add(h, list, movie, user_rating) ==
  IF DLL_HasId(h, list.node, list.head, h[movie].id)
    THEN [ret |-> FALSE, list |-> list]
    ELSE [ret |-> TRUE, list |-> DLL_Append(list, movie, user_rating)]

\* The first node from cur on whose stripped, lower-cased title is `title`, or None.
RECURSIVE DLL_FindTitle(_, _, _, _)
DLL_FindTitle(h, node, cur, title) ==
  IF cur = NULL THEN NULL
  ELSE IF Lower(Strip(h[node[cur].movie].title)) = title THEN cur
  ELSE DLL_FindTitle(h, node, node[cur].next, title)

\* A faulty variant: removing the last of several nodes makes the head the tail.
DLL_UnlinkTailToHead(list, cur) ==
  LET c  == list.node[cur]
      n1 == IF c.prev # NULL
              THEN [list.node EXCEPT ![c.prev].next = c.next]
              ELSE list.node
      h1 == IF c.prev # NULL THEN list.head ELSE c.next
      n2 == IF c.next # NULL
              THEN [n1 EXCEPT ![c.next].prev = c.prev]
              ELSE n1
      t2 == IF c.next # NULL THEN list.tail
            ELSE IF c.prev # NULL THEN list.head ELSE NULL
  IN  [head |-> h1, tail |-> t2,
       node |-> [a \in (DOMAIN n2) \ {cur} |-> n2[a]]]

\* The relinking of remove_by_title around node cur; the node itself is freed.
DLL_Unlink(list, cur) ==
  LET c  == list.node[cur]
      n1 == IF c.prev # NULL
              THEN [list.node EXCEPT ![c.prev].next = c.next]
              ELSE list.node
      h1 == IF c.prev # NULL THEN list.head ELSE c.next
      n2 == IF c.next # NULL
              THEN [n1 EXCEPT ![c.next].prev = c.prev]
              ELSE n1
      t2 == IF c.next # NULL THEN list.tail ELSE c.prev
  IN  [head |-> h1, tail |-> t2,
       node |-> [a \in (DOMAIN n2) \ {cur} |-> n2[a]]]

\* A faulty variant: every node with the title is removed, not only the first.
RECURSIVE DLL_RemoveAllByTitle(_, _, _)
DLL_RemoveAllByTitle(h, list, title) ==
  LET cur == DLL_FindTitle(h, list.node, list.head, Lower(Strip(title)))
  IN  IF cur = NULL THEN [ret |-> FALSE, list |-> list]
      ELSE [ret |-> TRUE,
            list |-> DLL_RemoveAllByTitle(h, DLL_Unlink(list, cur), title).list]

\* A faulty variant: a miss drops the head entry.
DLL_RemoveOrDropHead(h, list, title) ==
  LET cur == DLL_FindTitle(h, list.node, list.head, Lower(Strip(title)))
  IN  IF cur # NULL THEN [ret |-> TRUE, list |-> DLL_Unlink(list, cur)]
      ELSE IF list.head = NULL THEN [ret |-> FALSE, list |-> list]
      ELSE [ret |-> FALSE, list |-> DLL_Unlink(list, list.head)]

\* DoublyLinkedList.remove_by_title: the returned flag and the list afterwards.
DLL_RemoveByTitle(h, list, title) ==
  LET cur == DLL_FindTitle(h, list.node, list.head, Lower(Strip(title)))
  IN  IF cur = NULL
        THEN [ret |-> FALSE, list |-> list]
        ELSE [ret |-> TRUE, list |-> DLL_Unlink(list, cur)]

\* The entries of the favorites list as (movie, user_rating) pairs, head first.
FavEntries(list) ==
  LET ns == DLL_TraverseForward(list)
  IN  [i \in 1..Len(ns) |->
        [movie |-> list.node[ns[i]].movie, user_rating |-> list.node[ns[i]].user_rating]]

\* ------------------------------------------------------------ TMDB wrapper
\* The wrapper functions read the module global USE_API; here it is their first
\* parameter, use_api.
\* The default of the max_results parameter of the tmdb_search* functions.
DefaultMaxResults == 10

\* dict.get(k) is truthy: the key is present and its value is not empty.
Truthy(item, k) == k \in DOMAIN item /\ item[k] # <<>>

\* any("一" <= c <= "鿿" for c in s)
HasCJK(s) == \E i \in 1..Len(s) : s[i] >= 19968 /\ s[i] <= 40959

\* The literal placeholder title of _fetch.
UntitledMovie == <<26410, 21629, 21517, 38651, 24433>>

\* A faulty variant: the default title is preferred to a CJK original title.
ResolveTitleDefaultFirst(item) ==
  IF Truthy(item, "title_zh") THEN item.title_zh
  ELSE IF Truthy(item, "name_zh") THEN item.name_zh
  ELSE IF Truthy(item, "title") THEN item.title
  ELSE IF Truthy(item, "name") THEN item.name
  ELSE IF Truthy(item, "original_title") /\ HasCJK(item.original_title)
    THEN item.original_title
  ELSE UntitledMovie

\* The title resolution of _fetch.
ResolveTitle(item) ==
  IF Truthy(item, "title_zh") THEN item.title_zh
  ELSE IF Truthy(item, "name_zh") THEN item.name_zh
  ELSE IF Truthy(item, "original_title") /\ HasCJK(item.original_title)
    THEN item.original_title
  ELSE IF Truthy(item, "title") THEN item.title
  ELSE IF Truthy(item, "name") THEN item.name
  ELSE UntitledMovie

\* A faulty variant: the teaser bucket is left out.
TmdbGetTrailerNoTeaser(use_api, videos) ==
  LET url(v)      == "https://www.youtube.com/watch?v=" \o v.key
      yt          == SelectSeq(videos, LAMBDA v : v.site = "YouTube")
      trailers    == SelectSeq(yt, LAMBDA v : v.type = "Trailer")
      zh_trailers == SelectSeq(trailers, LAMBDA v : v.iso_639_1 \in {"zh", "zh-TW", "zh-CN"})
      fallback    == SelectSeq(yt, LAMBDA v : v.type \notin {"Clip", "Featurette"})
  IN  IF ~use_api THEN None
      ELSE IF videos = <<>> THEN None
      ELSE IF zh_trailers # <<>> THEN url(zh_trailers[1])
      ELSE IF trailers # <<>> THEN url(trailers[1])
      ELSE IF fallback # <<>> THEN url(fallback[1])
      ELSE None

\* The bucket selection of tmdb_get_trailer on the videos the catalog lists.
TmdbGetTrailer(use_api, videos) ==
  LET url(v)      == "https://www.youtube.com/watch?v=" \o v.key
      yt          == SelectSeq(videos, LAMBDA v : v.site = "YouTube")
      trailers    == SelectSeq(yt, LAMBDA v : v.type = "Trailer")
      zh_trailers == SelectSeq(trailers, LAMBDA v : v.iso_639_1 \in {"zh", "zh-TW", "zh-CN"})
      teasers     == SelectSeq(yt, LAMBDA v : v.type = "Teaser")
      fallback    == SelectSeq(yt, LAMBDA v : v.type \notin {"Clip", "Featurette"})
  IN  IF ~use_api THEN None
      ELSE IF videos = <<>> THEN None
      ELSE IF zh_trailers # <<>> THEN url(zh_trailers[1])
      ELSE IF trailers # <<>> THEN url(trailers[1])
      ELSE IF teasers # <<>> THEN url(teasers[1])
      ELSE IF fallback # <<>> THEN url(fallback[1])
      ELSE None

\* _fetch: the Movie built from one catalog item and the videos listed for it.
Fetch(use_api, item, videos) ==
  [id           |-> item.id,
   title        |-> ResolveTitle(item),
   release_date |-> IF "release_date" \in DOMAIN item THEN item.release_date ELSE "",
   vote_average |-> IF "vote_average" \in DOMAIN item THEN item.vote_average ELSE 0,
   overview     |-> IF "overview" \in DOMAIN item THEN item.overview ELSE <<>>,
   genres       |-> <<>>,
   trailer_url  |-> TmdbGetTrailer(use_api, videos)]

\* What a wrapper call hands back: an exception (err) or a list of Movie values,
\* and whether any request went out.
Raised == [err |-> TRUE, movies |-> <<>>, remote |-> TRUE]

Returned(ms, remote) == [err |-> FALSE, movies |-> ms, remote |-> remote]

\* `[_fetch(x) for x in items]`: the comprehension raises when a videos request
\* does (resp.video_fail is the position of the item whose request fails, 0 for none).
FetchAll(use_api, items, resp) ==
  IF resp.video_fail \in 1..Len(items)
    THEN Raised
    ELSE Returned([i \in 1..Len(items) |->
                     Fetch(use_api, items[i], resp.videos[items[i].id])], TRUE)

\* A faulty variant: a failing videos request ends the batch with the items built so far.
TmdbSearchPartial(use_api, resp, max_results) ==
  IF ~use_api THEN Returned(<<>>, FALSE)
  ELSE IF ~resp.ok THEN Returned(<<>>, TRUE)
  ELSE LET items == Truncate(resp.results, max_results)
           n     == IF resp.video_fail \in 1..Len(items) THEN resp.video_fail - 1 ELSE Len(items)
       IN  Returned([i \in 1..n |-> Fetch(use_api, items[i], resp.videos[items[i].id])], TRUE)

\* tmdb_search: resp is the catalog's answer to the search request.
TmdbSearch(use_api, resp, max_results) ==
  IF ~use_api THEN Returned(<<>>, FALSE)
  ELSE IF ~resp.ok THEN Raised
  ELSE FetchAll(use_api, Truncate(resp.results, max_results), resp)

\* tmdb_search_by_region: resp is the catalog's answer to the discover request.
TmdbSearchByRegion(use_api, resp, max_results) ==
  IF ~use_api THEN Returned(<<>>, FALSE)
  ELSE IF ~resp.ok THEN Raised
  ELSE FetchAll(use_api, Truncate(resp.results, max_results), resp)

\* tmdb_search_multi: one request, to the search endpoint when a title is given,
\* to the discover endpoint otherwise; resp is the answer to it.
TmdbSearchMulti(use_api, resp, max_results) ==
  IF ~use_api THEN Returned(<<>>, FALSE)
  ELSE IF ~resp.ok THEN Raised
  ELSE FetchAll(use_api, Truncate(resp.results, max_results), resp)

Popularity(item) == IF "popularity" \in DOMAIN item THEN item.popularity ELSE 0

\* cast.sort(key=popularity, reverse=True): stable, most popular first.
RECURSIVE SortByPopularity(_)
SortByPopularity(cast) ==
  IF cast = <<>> THEN <<>>
  ELSE LET front == SortByPopularity(SubSeq(cast, 1, Len(cast) - 1))
           x     == cast[Len(cast)]
           k     == Cardinality({i \in 1..Len(front) : Popularity(front[i]) >= Popularity(x)})
       IN  SubSeq(front, 1, k) \o <<x>> \o SubSeq(front, k + 1, Len(front))

\* tmdb_search_by_actor: resp.ok / resp.persons answer the person search,
\* resp.credits_ok / resp.results (the cast) the credits request.
TmdbSearchByActor(use_api, resp, max_results) ==
  IF ~use_api THEN Returned(<<>>, FALSE)
  ELSE IF ~resp.ok THEN Raised
  ELSE IF ~resp.persons THEN Returned(<<>>, TRUE)
  ELSE IF ~resp.credits_ok THEN Raised
  ELSE FetchAll(use_api, Truncate(SortByPopularity(resp.results), max_results), resp)

\* ------------------------------------------------------------------- moods
MOOD_KEYWORDS ==
  << [mood |-> <<38283, 24515>>,
      keys |-> << <<38283, 24515>>, <<24555, 27138>>, <<39640, 33288>>, <<33288, 22894>>,
                  <<24841, 24555>>, <<38283, 26391>>, <<27489, 27138>>, <<21916, 24709>> >>],
     [mood |-> <<38627, 36942>>,
      keys |-> << <<38627, 36942>>, <<24754, 20663>>, <<27822, 21930>>, <<22833, 33853>>,
                  <<24962, 39729>>, <<20663, 24515>>, <<20302, 33853>>, <<28040, 27785>> >>],
     [mood |-> <<22739, 21147, 22823>>,
      keys |-> << <<22739, 21147>>, <<28966, 24942>>, <<32202, 24373>>, <<29033, 36481>>,
                  <<30130, 24970>>, <<32047>>, <<24537>>, <<29033>> >>],
     [mood |-> <<28961, 32842>>,
      keys |-> << <<28961, 32842>>, <<27794, 20107, 20570>>, <<31354, 34395>>,
                  <<28961, 36259>>, <<38290>>, <<30332, 21574>> >>],
     [mood |-> <<24819, 21741>>,
      keys |-> << <<24819, 21741>>, <<24863, 20663>>, <<24863, 21205>>, <<28122>>, <<21741>> >>],
     [mood |-> <<24819, 21050, 28608>>,
      keys |-> << <<21050, 28608>>, <<33288, 22894>>, <<20882, 38570>>, <<25361, 25136>>,
                  <<29105, 34880>>, <<29245>>, <<36942, 30318>> >>] >>

MOOD_TO_GENRE ==
  << [mood |-> <<38283, 24515>>,
      genres |-> << <<21916, 21127>>, <<21205, 30059>>, <<38899, 27138>> >>],
     [mood |-> <<38627, 36942>>,
      genres |-> << <<21916, 21127>>, <<21205, 30059>>, <<23478, 24237>> >>],
     [mood |-> <<22739, 21147, 22823>>,
      genres |-> << <<21916, 21127>>, <<21205, 30059>>, <<24859, 24773>> >>],
     [mood |-> <<28961, 32842>>,
      genres |-> << <<21205, 20316>>, <<20882, 38570>>, <<31185, 24187>> >>],
     [mood |-> <<24819, 21741>>,
      genres |-> << <<24859, 24773>>, <<21127, 24773>>, <<23478, 24237>> >>],
     [mood |-> <<24819, 21050, 28608>>,
      genres |-> << <<21205, 20316>>, <<39514, 24730>>, <<24656, 24598>>, <<31185, 24187>> >>] >>

\* `k in text`
Contains(text, k) ==
  \E i \in 0..(Len(text) - Len(k)) : SubSeq(text, i + 1, i + Len(k)) = k

\* hits of one table row: the keywords of the row that occur in text.
Hits(row, text) ==
  Cardinality({i \in 1..Len(row.keys) : Contains(text, row.keys[i])})

\* A faulty variant: among equal scores the mood visited last wins.
RECURSIVE MaxByValueLast(_, _, _)
MaxByValueLast(keys, value, best) ==
  IF keys = <<>> THEN best
  ELSE IF value[Head(keys)] >= value[best]
    THEN MaxByValueLast(Tail(keys), value, Head(keys))
    ELSE MaxByValueLast(Tail(keys), value, best)

\* max(score, key=score.get): the keys are visited in order and a key replaces
\* the best so far only when its value is strictly greater.
RECURSIVE MaxByValue(_, _, _)
MaxByValue(keys, value, best) ==
  IF keys = <<>> THEN best
  ELSE IF value[Head(keys)] > value[best]
    THEN MaxByValue(Tail(keys), value, Head(keys))
    ELSE MaxByValue(Tail(keys), value, best)

\* analyze_mood: `score` gets a key for every mood with hits, in the order of
\* MOOD_KEYWORDS (moods are named by their row); the empty string stands for
\* None (both are falsy to the caller's `if not mood`).
AnalyzeMood(text) ==
  LET n     == Len(MOOD_KEYWORDS)
      hit   == [i \in 1..n |-> Hits(MOOD_KEYWORDS[i], text)]
      score == SelectSeq([i \in 1..n |-> i], LAMBDA i : hit[i] > 0)
  IN  IF score = <<>> THEN <<>>
      ELSE MOOD_KEYWORDS[MaxByValue(Tail(score), hit, Head(score))].mood

\* MOOD_TO_GENRE[mood]
MoodToGenre(mood) ==
  LET i == CHOOSE j \in 1..Len(MOOD_TO_GENRE) : MOOD_TO_GENRE[j].mood = mood
  IN  MOOD_TO_GENRE[i].genres

\* ------------------------------------------------- the remote catalog (inputs)
\* Catalog items the model's catalog can answer with: two ids whose titles are
\* equal once stripped and lower-cased ("Up", " UP"), an id the sample data uses
\* too (1), and a title equal to a sample title under another id.
ItemUp ==
  [id |-> 1, original_title |-> <<85, 112>>, title |-> <<85, 112>>,
   release_date |-> "2009-05-29", vote_average |-> 79, overview |-> <<79, 75>>,
   popularity |-> 5]

ItemUpZh ==
  [id |-> 7, title_zh |-> <<32, 85, 80>>, title |-> <<85, 112, 33>>, popularity |-> 9]

ItemInception ==
  [id |-> 8, original_title |-> <<20840, 38754, 21855, 21205>>,
   title |-> <<73, 110, 99, 101, 112, 116, 105, 111, 110>>]

Items == {ItemUp, ItemUpZh, ItemInception}

\* The videos the catalog lists for each id.
RemoteVideos ==
  [i \in {1, 7, 8} |->
     CASE i = 1 -> << [site |-> "YouTube", type |-> "Teaser", key |-> "t1", iso_639_1 |-> "en"] >>
       [] i = 7 -> << >>
       [] i = 8 -> << [site |-> "YouTube", type |-> "Clip", key |-> "c8", iso_639_1 |-> "en"],
                      [site |-> "Vimeo", type |-> "Trailer", key |-> "v8", iso_639_1 |-> "zh"],
                      [site |-> "YouTube", type |-> "Trailer", key |-> "e8", iso_639_1 |-> "en"],
                      [site |-> "YouTube", type |-> "Trailer", key |-> "z8", iso_639_1 |-> "zh-TW"] >>]

\* The "results" / "cast" arrays the catalog answers with: none, two ids with
\* the same normalized title (the less popular first), one item twice.
RemoteLists ==
  { <<>>,
    <<ItemUp, ItemUpZh>>,
    <<ItemInception, ItemInception>> }

\* One answer of the catalog to a wrapper call.  ok: the list (or person search)
\* request succeeded; persons: the person search found someone; credits_ok: the
\* credits request succeeded; results: the "results" / "cast" array; video_fail:
\* the position of the item whose videos request fails (0: none fails).
Response(ok, persons, credits_ok, results, video_fail) ==
  [ok |-> ok, persons |-> persons, credits_ok |-> credits_ok, results |-> results,
   video_fail |-> video_fail, videos |-> RemoteVideos]

\* The list request fails.
NoResponse == Response(FALSE, FALSE, FALSE, <<>>, 0)

\* A videos request fails: the first one, or one after an item was built.
VideoFailures ==
  { Response(TRUE, TRUE, TRUE, <<ItemUp>>, 1),
    Response(TRUE, TRUE, TRUE, <<ItemUp, ItemUpZh>>, 2) }

Responses ==
  {NoResponse} \cup VideoFailures
  \cup {Response(TRUE, TRUE, TRUE, rs, 0) : rs \in RemoteLists}

ActorResponses ==
  Responses \cup {Response(TRUE, FALSE, FALSE, <<>>, 0), Response(TRUE, TRUE, FALSE, <<>>, 0)}

\* Texts typed into the mood box: empty (not classified), two moods tied, and
\* a mood whose genres are not those of the default mood.
MoodTexts ==
  { <<>>,
    <<38627, 36942, 38283, 24515>>,
    <<28961, 32842>> }

\* Titles typed into the removal box: "UP ", the first sample title (also the
\* title of a catalog item), and "Up!" (the title of no movie).
TitleInputs ==
  { <<85, 80, 32>>,
    <<20840, 38754, 21855, 21205>>,
    <<85, 112, 33>> }

\* ------------------------------------------------------------ session state
\* Movie(...) / _fetch construct the objects: each value gets a fresh address.
RECURSIVE AllocAll(_, _)
AllocAll(h, vals) ==
  IF vals = <<>> THEN [heap |-> h, addrs |-> <<>>]
  ELSE LET a    == Alloc(DOMAIN h)
           rest == AllocAll((a :> Head(vals)) @@ h, Tail(vals))
       IN  [heap |-> rest.heap, addrs |-> <<a>> \o rest.addrs]

\* The distinct elements of a sequence, in order of first occurrence.
RECURSIVE Distinct(_, _)
Distinct(xs, seen) ==
  IF xs = <<>> THEN <<>>
  ELSE IF Head(xs) \in seen THEN Distinct(Tail(xs), seen)
  ELSE <<Head(xs)>> \o Distinct(Tail(xs), seen \cup {Head(xs)})

\* The session state a handler leaves behind.  Movie objects nothing refers to
\* any more are freed (reference counting).  An address means nothing but the
\* identity of the object at it, so the state is kept up to a renaming of the
\* Movie addresses: the referenced objects are numbered in the order the staging
\* list, then the favorites list, reach them.  Which nodes share a Movie object
\* is exactly preserved.
Settle(h, sr, fav) ==
  LET favNodes == DLL_TraverseForward(fav)
      order    == Distinct(SLL_Traverse(sr)
                           \o [i \in 1..Len(favNodes) |-> fav.node[favNodes[i]].movie], {})
      new(a)   == CHOOSE i \in 1..Len(order) : order[i] = a
  IN  [heap |-> [i \in 1..Len(order) |-> h[order[i]]],
       search_results |->
         [sr EXCEPT !.node = [n \in DOMAIN sr.node |->
                                [sr.node[n] EXCEPT !.movie = new(sr.node[n].movie)]]],
       favorites |->
         [fav EXCEPT !.node = [n \in DOMAIN fav.node |->
                                 [fav.node[n] EXCEPT !.movie = new(fav.node[n].movie)]]]]

\* The handler ends: the session state is what it left, the history what it did.
Leave(h, sr, fav, outcome) ==
  LET s == Settle(h, sr, fav)
  IN  /\ heap' = s.heap
      /\ search_results' = s.search_results
      /\ favorites' = s.favorites
      /\ last' = outcome
      /\ UNCHANGED USE_API

Outcome(op, err, remote, ret, idx, title, fetched) ==
  [op |-> op, err |-> err, remote |-> remote, ret |-> ret, idx |-> idx,
   title |-> title, fetched |-> fetched]

\* Lines 382-385: both lists are created empty.
Init ==
  /\ USE_API \in BOOLEAN
  /\ heap = <<>>
  /\ search_results = SLL_New
  /\ favorites = DLL_New
  /\ last = Outcome("start", FALSE, FALSE, "None", 0, <<>>, <<>>)

\* A faulty variant: the results are appended to the list already staged.
StageMerge(op, r) ==
  LET a  == AllocAll(heap, r.movies)
      sr == IF r.err THEN SLL_New ELSE SLL_InsertAll(search_results, a.addrs)
  IN  Leave(a.heap, sr, favorites, Outcome(op, r.err, r.remote, "None", 0, <<>>, r.movies))

\* A faulty variant: the new movies are built over the records the favorites hold.
StageClobber(op, r) ==
  LET a  == AllocAll(<<>>, r.movies \o get_mock_movies)
      sr == IF r.err THEN SLL_New ELSE SLL_InsertAll(SLL_New, SubSeq(a.addrs, 1, Len(r.movies)))
  IN  /\ heap' = a.heap
      /\ search_results' = sr
      /\ favorites' = favorites
      /\ last' = Outcome(op, r.err, r.remote, "None", 0, <<>>, r.movies)
      /\ UNCHANGED USE_API

\* A faulty variant: a search also starts the favorites list afresh.
StageForget(op, r) ==
  LET dropped == Settle(heap, SLL_New, DLL_New)
      a       == AllocAll(dropped.heap, r.movies)
      sr      == IF r.err THEN SLL_New ELSE SLL_InsertAll(SLL_New, a.addrs)
  IN  Leave(a.heap, sr, DLL_New,
            Outcome(op, r.err, r.remote, "None", 0, <<>>, r.movies))

\* The body every search button shares: the staging list is replaced by a new
\* empty list (the old one and its movies are freed unless a favorite holds
\* them), then the wrapper is called (r is what it hands back), then the movies
\* are appended.  An exception of the call ends the script run there.
Stage(op, r) ==
  LET dropped == Settle(heap, SLL_New, favorites)
      a       == AllocAll(dropped.heap, r.movies)
      sr      == IF r.err THEN SLL_New ELSE SLL_InsertAll(SLL_New, a.addrs)
  IN  Leave(a.heap, sr, dropped.favorites,
            Outcome(op, r.err, r.remote, "None", 0, <<>>, r.movies))

Mock == Returned(get_mock_movies, FALSE)

\* Tab A: what `movies` is bound to, or the exception.
TitleResult(use_api, resp) ==
  IF use_api THEN TmdbSearch(use_api, resp, DefaultMaxResults) ELSE Mock

\* Tab B: the genre name is sent as a title query.
GenreResult(use_api, resp) ==
  IF use_api THEN TmdbSearch(use_api, resp, DefaultMaxResults) ELSE Mock

\* A faulty variant: the actor tab falls back to the sample data like the other tabs.
ActorResultMock(use_api, resp) ==
  IF use_api THEN TmdbSearchByActor(use_api, resp, DefaultMaxResults) ELSE Mock

\* Tab C.
ActorResult(use_api, resp) ==
  IF use_api THEN TmdbSearchByActor(use_api, resp, DefaultMaxResults)
  ELSE Returned(<<>>, FALSE)

\* Tab D; cs: some country is selected.
RegionResult(use_api, cs, resp) ==
  IF use_api /\ cs THEN TmdbSearchByRegion(use_api, resp, DefaultMaxResults) ELSE Mock

\* Tab E.
MultiResult(use_api, resp) ==
  IF use_api THEN TmdbSearchMulti(use_api, resp, DefaultMaxResults) ELSE Mock

\* What each button can get back in each mode, over all answers of the catalog.
TitleResults == [u \in BOOLEAN |-> {TitleResult(u, resp) : resp \in Responses}]

GenreResults == [u \in BOOLEAN |-> {GenreResult(u, resp) : resp \in Responses}]

ActorResults == [u \in BOOLEAN |-> {ActorResult(u, resp) : resp \in ActorResponses}]

RegionResults ==
  [u \in BOOLEAN |-> {RegionResult(u, cs, resp) : cs \in BOOLEAN, resp \in Responses}]

MultiResults == [u \in BOOLEAN |-> {MultiResult(u, resp) : resp \in Responses}]

\* "search A"
SearchTitle == \E r \in TitleResults[USE_API] : Stage("search_title", r)

\* "search B"
SearchGenre == \E r \in GenreResults[USE_API] : Stage("search_genre", r)

\* "search C"
SearchActor == \E r \in ActorResults[USE_API] : Stage("search_actor", r)

\* "search D"
SearchRegion == \E r \in RegionResults[USE_API] : Stage("search_region", r)

\* "search E"
SearchMulti == \E r \in MultiResults[USE_API] : Stage("search_multi", r)

\* ------------------------------------------------------ mood recommendation
\* max_results of the searches of the mood handler.
MoodMaxResults == 5

\* genres[:2]: how many genres of the mood are searched.
MoodGenres == 2

\* The mood substituted when the text is not classified.
DefaultMood == <<38283, 24515>>

\* The genres the handler searches for a text.
GenresFor(text) ==
  LET found == AnalyzeMood(text)
      mood  == IF found = <<>> THEN DefaultMood ELSE found
  IN  Truncate(MoodToGenre(mood), MoodGenres)

\* `for g in genres[:2]: movies += tmdb_search(g, max_results=5)`; resps are the
\* catalog's answers, one per genre.  The first exception ends the loop.
RECURSIVE SearchEach(_, _)
SearchEach(use_api, resps) ==
  IF resps = <<>> THEN Returned(<<>>, FALSE)
  ELSE LET r == TmdbSearch(use_api, Head(resps), MoodMaxResults)
       IN  IF r.err THEN Raised
           ELSE LET rest == SearchEach(use_api, Tail(resps))
                IN  IF rest.err THEN Raised
                    ELSE Returned(r.movies \o rest.movies, TRUE)

\* What `movies` is bound to before the `seen` loop, or the exception.
RecommendResult(use_api, resps) ==
  IF use_api THEN SearchEach(use_api, resps) ELSE Mock

RecommendResults ==
  [u \in BOOLEAN |->
     UNION { {RecommendResult(u, resps) : resps \in [1..Len(GenresFor(text)) -> Responses]} :
             text \in MoodTexts }]

\* A faulty variant: the `seen` loop keeps every movie.
KeepEach(h, ms, seen) == ms

\* The `seen` loop: the movies (addresses) whose id did not occur before.
RECURSIVE FirstOfEachId(_, _, _)
FirstOfEachId(h, ms, seen) ==
  IF ms = <<>> THEN <<>>
  ELSE IF h[Head(ms)].id \in seen THEN FirstOfEachId(h, Tail(ms), seen)
  ELSE <<Head(ms)>> \o FirstOfEachId(h, Tail(ms), seen \cup {h[Head(ms)].id})

\* The body of the "recommend" button once `movies` is bound to r (or the
\* exception raised): the new list is built in a local and stored last.
RecommendWith(r, outcome) ==
  LET a       == AllocAll(heap, r.movies)
      kept    == IF USE_API THEN FirstOfEachId(a.heap, a.addrs, {}) ELSE a.addrs
      results == SLL_InsertAll(SLL_New, kept)
      sr      == IF r.err THEN search_results ELSE results
  IN  Leave(a.heap, sr, favorites, outcome)

\* The "recommend" button.
Recommend ==
  \E r \in RecommendResults[USE_API] :
    RecommendWith(r, Outcome("recommend", r.err, r.remote, "None", 0, <<>>, r.movies))

\* ----------------------------------------------------------------- favorites
\* A faulty variant: a movie added to the favorites is taken out of the staging list.
AddToFavoritesTake ==
  \E idx \in -1..Len(SLL_Traverse(search_results)) :
    LET movie == SLL_GetByIndex(search_results, idx)
        ms    == SLL_Traverse(search_results)
    IN  IF movie = NULL
          THEN /\ last' = Outcome("add_to_favorites", FALSE, FALSE, "NotFound", idx, <<>>, <<>>)
               /\ UNCHANGED <<USE_API, heap, search_results, favorites>>
          ELSE LET r == DLL_Add(heap, favorites, movie, None)
                   sr == IF r.ret
                           THEN SLL_InsertAll(SLL_New, SubSeq(ms, 1, idx) \o SubSeq(ms, idx + 2, Len(ms)))
                           ELSE search_results
               IN  /\ Len(DLL_TraverseForward(r.list)) <= MaxFav
                   /\ Leave(heap, sr, r.list,
                            Outcome("add_to_favorites", FALSE, FALSE,
                                    IF r.ret THEN "True" ELSE "False", idx, <<>>, <<>>))

\* add_to_favorites_handler(idx)
AddToFavorites ==
  \E idx \in -1..Len(SLL_Traverse(search_results)) :
    LET movie == SLL_GetByIndex(search_results, idx)
    IN  IF movie = NULL
          THEN /\ last' = Outcome("add_to_favorites", FALSE, FALSE, "NotFound", idx, <<>>, <<>>)
               /\ UNCHANGED <<USE_API, heap, search_results, favorites>>
          ELSE LET r == DLL_Add(heap, favorites, movie, None)
               IN  /\ Len(DLL_TraverseForward(r.list)) <= MaxFav
                   /\ Leave(heap, search_results, r.list,
                            Outcome("add_to_favorites", FALSE, FALSE,
                                    IF r.ret THEN "True" ELSE "False", idx, <<>>, <<>>))

\* The "delete" button of the removal page.
RemoveFavorite ==
  \E title \in TitleInputs :
    LET r == DLL_RemoveByTitle(heap, favorites, title)
    IN  Leave(heap, search_results, r.list,
              Outcome("remove_favorite", FALSE, FALSE,
                      IF r.ret THEN "True" ELSE "False", 0, title, <<>>))

Next ==
  \/ SearchTitle
  \/ SearchGenre
  \/ SearchActor
  \/ SearchRegion
  \/ SearchMulti
  \/ Recommend
  \/ AddToFavorites
  \/ RemoveFavorite

Spec == Init /\ [][Next]_vars

\* ------------------------------------------- the favorites list on its own
\* Movie objects a caller can hand to add: two ids whose titles are equal once
\* normalized (1 and 2), one id under two titles (1 and 3), one title under two
\* ids (3 and 4).
MoviePool ==
  << Fetch(TRUE, ItemUp, RemoteVideos[1]),
     Fetch(TRUE, ItemUpZh, RemoteVideos[7]),
     get_mock_movies[1],
     Fetch(TRUE, ItemInception, RemoteVideos[8]) >>

\* user_rating values a caller can hand to add.
Ratings == {None, "5"}

\* gone: the ids of the movies removed so far (history).
FavOutcome(op, ret, movie, user_rating, title, gone) ==
  [op |-> op, ret |-> IF ret THEN "True" ELSE "False", movie |-> movie,
   user_rating |-> user_rating, title |-> title, gone |-> gone]

InitFav ==
  /\ USE_API = TRUE
  /\ heap = MoviePool
  /\ search_results = SLL_New
  /\ favorites = DLL_New
  /\ last = [op |-> "start", ret |-> "None", movie |-> NULL, user_rating |-> None,
             title |-> <<>>, gone |-> {}]

\* favorites.add(movie, user_rating)
FavAdd ==
  \E movie \in DOMAIN heap, user_rating \in Ratings :
    LET r == DLL_Add(heap, favorites, movie, user_rating)
    IN  /\ favorites' = r.list
        /\ last' = FavOutcome("add", r.ret, movie, user_rating, <<>>, last.gone)
        /\ UNCHANGED <<USE_API, heap, search_results>>

\* favorites.remove_by_title(title)
FavRemove ==
  \E title \in TitleInputs :
    LET r   == DLL_RemoveByTitle(heap, favorites, title)
        cur == DLL_FindTitle(heap, favorites.node, favorites.head, Lower(Strip(title)))
        ids == IF r.ret THEN {heap[favorites.node[cur].movie].id} ELSE {}
    IN  /\ favorites' = r.list
        /\ last' = FavOutcome("remove_by_title", r.ret, NULL, None, title, last.gone \cup ids)
        /\ UNCHANGED <<USE_API, heap, search_results>>

NextFav ==
  \/ FavAdd
  \/ FavRemove

SpecFav == InitFav /\ [][NextFav]_vars

\* --------------------------------------------- the staging list on its own
\* Longest movie list appended in one go.
MaxList == 3

SeqsUpTo(S, n) == UNION {[1..k -> S] : k \in 0..n}

\* The movies (objects of the pool) a caller appends.
StagingPool == {1, 2, 3}

StagingStep(op, L, k, out, old) ==
  [op |-> op, L |-> L, k |-> k, out |-> out, old |-> old]

\* Any list a caller may have filled before, and any list L it is to hold next.
InitStaging ==
  /\ USE_API = TRUE
  /\ heap = MoviePool
  /\ favorites = DLL_New
  /\ \E old \in SeqsUpTo(StagingPool, MaxList) :
       /\ search_results = SLL_InsertAll(SLL_New, old)
       /\ \E L \in SeqsUpTo(StagingPool, MaxList) :
            last = StagingStep("start", L, 0, <<>>, old)

\* `st.session_state["search_results"] = SingleLinkedList()`
StagingReplace ==
  /\ last.op = "start"
  /\ search_results' = SLL_New
  /\ last' = [last EXCEPT !.op = "replace"]
  /\ UNCHANGED <<USE_API, heap, favorites>>

\* `search_results.insert_end(m)` for the next m of L
StagingInsertEnd ==
  /\ last.op \in {"replace", "insert_end"}
  /\ last.k < Len(last.L)
  /\ search_results' = SLL_InsertEnd(search_results, last.L[last.k + 1])
  /\ last' = [last EXCEPT !.op = "insert_end", !.k = last.k + 1]
  /\ UNCHANGED <<USE_API, heap, favorites>>

\* `search_results.traverse()` once all of L is in
StagingTraverse ==
  /\ last.op \in {"replace", "insert_end"}
  /\ last.k = Len(last.L)
  /\ last' = [last EXCEPT !.op = "traverse", !.out = SLL_Traverse(search_results)]
  /\ UNCHANGED <<USE_API, heap, search_results, favorites>>

NextStaging ==
  \/ StagingReplace
  \/ StagingInsertEnd
  \/ StagingTraverse

SpecStaging == InitStaging /\ [][NextStaging]_vars

\* ------------------------------------------------ the functions on their own
\* Most items of a "results" array short of the cut at max_results.
MaxBatch == 3

\* A catalog item with an id and a default title only.
PlainItem(i) == [id |-> i, title |-> <<64 + i>>]

\* A "results" / "cast" array of n such items, ids 1..n.
PlainList(n) == [i \in 1..n |-> PlainItem(i)]

\* Answers of the catalog to one wrapper call: arrays up to MaxBatch items and
\* one of one item more than the default max_results, every request of the call
\* failing or not (video_fail: the item whose videos request fails, 0 for none).
BatchResponses ==
  UNION { { [ok |-> ok, persons |-> persons, credits_ok |-> credits_ok,
             results |-> PlainList(n), video_fail |-> k,
             videos |-> [i \in 1..n |-> <<>>]] :
            ok \in BOOLEAN, persons \in BOOLEAN, credits_ok \in BOOLEAN, k \in 0..n } :
          n \in (0..MaxBatch) \cup {DefaultMaxResults + 1} }

WrapperNames ==
  {"tmdb_search", "tmdb_search_by_region", "tmdb_search_multi", "tmdb_search_by_actor"}

\* fn(..., max_results) for one of the four wrapper functions.
Wrapper(fn, use_api, resp, max_results) ==
  CASE fn = "tmdb_search"           -> TmdbSearch(use_api, resp, max_results)
    [] fn = "tmdb_search_by_region" -> TmdbSearchByRegion(use_api, resp, max_results)
    [] fn = "tmdb_search_multi"     -> TmdbSearchMulti(use_api, resp, max_results)
    [] fn = "tmdb_search_by_actor"  -> TmdbSearchByActor(use_api, resp, max_results)

\* Most words of a text typed into the mood box.
MaxWords == 2

\* Words of such a text: keywords of the first two moods, a keyword two moods
\* share, one that has another keyword of its mood inside, a one-character
\* keyword, and a word that is no keyword.
MoodWords ==
  { <<38283, 24515>>, <<38627, 36942>>, <<33288, 22894>>, <<29033, 36481>>,
    <<21741>>, <<111, 107>> }

RECURSIVE Concat(_)
Concat(ws) == IF ws = <<>> THEN <<>> ELSE Head(ws) \o Concat(Tail(ws))

\* The texts of up to MaxWords words.
MoodInputs == {Concat(ws) : ws \in SeqsUpTo(MoodWords, MaxWords)}

\* Most videos the catalog lists for a movie.
MaxVideos == 3

\* What a listed video can be: site, type and language tag.
VideoKinds ==
  { [site |-> "YouTube", type |-> "Trailer", iso_639_1 |-> "zh-CN"],
    [site |-> "YouTube", type |-> "Trailer", iso_639_1 |-> "en"],
    [site |-> "YouTube", type |-> "Teaser", iso_639_1 |-> "en"],
    [site |-> "YouTube", type |-> "Clip", iso_639_1 |-> "en"],
    [site |-> "YouTube", type |-> "Featurette", iso_639_1 |-> "zh"],
    [site |-> "YouTube", type |-> "Behind the Scenes", iso_639_1 |-> "en"],
    [site |-> "Vimeo", type |-> "Trailer", iso_639_1 |-> "zh-TW"] }

\* The key of the video listed at each position.
VideoKeys == <<"k1", "k2", "k3", "k4", "k5">>

\* The "results" arrays of a videos response: up to MaxVideos videos of any kind.
VideoLists ==
  { [i \in 1..Len(ks) |->
       [site |-> ks[i].site, type |-> ks[i].type, iso_639_1 |-> ks[i].iso_639_1,
        key |-> VideoKeys[i]]] :
    ks \in SeqsUpTo(VideoKinds, MaxVideos) }

\* The keys of a catalog item that _fetch reads a title from.
TitleKeys == <<"title_zh", "name_zh", "original_title", "title", "name">>

\* What the catalog can hold under the k-th of these keys: nothing (no key), the
\* empty string, a Latin string, a string of CJK ideographs, Latin text with one
\* ideograph in it; the strings differ from key to key.
TitleValue(k, form) ==
  CASE form = "empty" -> <<>>
    [] form = "latin" -> <<84, 96 + k>>
    [] form = "cjk"   -> <<19968 + k, 40959>>
    [] form = "mixed" -> <<84, 96 + k, 19968, 33>>

TitleForms == {"absent", "empty", "latin", "cjk", "mixed"}

\* Every item over these keys and forms (id 1 throughout).
TitleItems ==
  { [key \in {"id"} \cup {TitleKeys[k] : k \in {j \in 1..Len(TitleKeys) : c[j] # "absent"}} |->
       IF key = "id" THEN 1
       ELSE LET k == CHOOSE j \in 1..Len(TitleKeys) : TitleKeys[j] = key
            IN  TitleValue(k, c[k])] :
    c \in [1..Len(TitleKeys) -> TitleForms] }

\* Longest overview of a movie shown in the result table.
MaxOverview == 122

\* m.overview[:120]
SynopsisLimit == 120

\* "..."
Ellipsis == <<46, 46, 46>>

\* The placeholder shown for a movie without overview.
NoData == <<65288, 28961, 36039, 26009, 65289>>

\* The synopsis cell of create_movie_df.
Synopsis(overview) ==
  IF overview # <<>> THEN Truncate(overview, SynopsisLimit) \o Ellipsis ELSE NoData

\* create_movie_df: the rows of the table (none for an empty list).
CreateMovieDf(movie_list) ==
  [i \in 1..Len(movie_list) |->
     [index        |-> i - 1,
      title        |-> movie_list[i].title,
      release_date |-> movie_list[i].release_date,
      vote_average |-> movie_list[i].vote_average,
      synopsis     |-> Synopsis(movie_list[i].overview),
      trailer      |-> IF movie_list[i].trailer_url # None
                         THEN movie_list[i].trailer_url ELSE "N/A"]]

\* The overviews of every length up to MaxOverview (letters a..g in turn).
Overviews == {[i \in 1..n |-> 97 + (i % 7)] : n \in 0..MaxOverview}

\* The functions below keep no state of their own (they read USE_API only), so
\* one call from the start is all a behaviour needs.
InitFn ==
  /\ USE_API \in BOOLEAN
  /\ heap = <<>>
  /\ search_results = SLL_New
  /\ favorites = DLL_New
  /\ last = [op |-> "start"]

\* A call of a wrapper function with the default max_results.
CallWrapper ==
  \E fn \in WrapperNames, resp \in BatchResponses :
    /\ last.op = "start"
    /\ last' = [op |-> fn, resp |-> resp,
                out |-> Wrapper(fn, USE_API, resp, DefaultMaxResults)]
    /\ UNCHANGED <<USE_API, heap, search_results, favorites>>

\* analyze_mood(text)
CallAnalyzeMood ==
  \E text \in MoodInputs :
    /\ last.op = "start"
    /\ last' = [op |-> "analyze_mood", text |-> text, out |-> AnalyzeMood(text)]
    /\ UNCHANGED <<USE_API, heap, search_results, favorites>>

\* tmdb_get_trailer(movie_id), the videos request answering with `videos`
CallTmdbGetTrailer ==
  \E videos \in VideoLists :
    /\ last.op = "start"
    /\ last' = [op |-> "tmdb_get_trailer", videos |-> videos,
                out |-> TmdbGetTrailer(USE_API, videos)]
    /\ UNCHANGED <<USE_API, heap, search_results, favorites>>

\* _fetch(item), the catalog listing no video for the item
CallFetch ==
  \E item \in TitleItems :
    /\ last.op = "start"
    /\ last' = [op |-> "_fetch", item |-> item, out |-> Fetch(USE_API, item, <<>>)]
    /\ UNCHANGED <<USE_API, heap, search_results, favorites>>

\* create_movie_df(movies) on a list of one sample movie and one movie with the
\* overview given
CallCreateMovieDf ==
  \E overview \in Overviews :
    LET movies == <<get_mock_movies[1],
                    [Movie(6, <<84>>, "2020-01-01", 70) EXCEPT !.overview = overview]>>
    IN  /\ last.op = "start"
        /\ last' = [op |-> "create_movie_df", movies |-> movies, out |-> CreateMovieDf(movies)]
        /\ UNCHANGED <<USE_API, heap, search_results, favorites>>

NextFn ==
  \/ CallWrapper
  \/ CallAnalyzeMood
  \/ CallTmdbGetTrailer
  \/ CallFetch
  \/ CallCreateMovieDf

SpecFn == InitFn /\ [][NextFn]_vars

\* ------------------------------------------ the mood handler on its own
\* Most items the catalog answers a genre search of the mood handler with.
MaxGenreResults == 6

\* The "results" arrays of such an answer: none; MaxGenreResults items from id 1
\* on; as many from the id behind the cut of the former on; one id twice; ids of
\* the first array in another order with one more.
GenreLists ==
  { <<>>,
    PlainList(MaxGenreResults),
    [i \in 1..MaxGenreResults |-> PlainItem(MoodMaxResults + i)],
    <<PlainItem(1), PlainItem(1), PlainItem(2)>>,
    <<PlainItem(2), PlainItem(MoodMaxResults + MaxGenreResults), PlainItem(1)>> }

GenreResponse(ok, results, video_fail) ==
  [ok |-> ok, persons |-> FALSE, credits_ok |-> FALSE, results |-> results,
   video_fail |-> video_fail,
   videos |-> [i \in 1..(MoodMaxResults + MaxGenreResults) |-> <<>>]]

\* The answers: the search request fails, the videos request of the second
\* item fails, or an array comes back and every videos request succeeds.
GenreResponses ==
  {GenreResponse(FALSE, <<>>, 0), GenreResponse(TRUE, PlainList(MaxGenreResults), 2)}
  \cup {GenreResponse(TRUE, rs, 0) : rs \in GenreLists}

\* What the handler computes before it touches the session state, for every
\* text and every pair of answers: the mood, the genres searched, and what
\* `movies` is bound to (or the exception).
MoodCalls ==
  [u \in BOOLEAN |->
     UNION { { LET found == AnalyzeMood(text)
               IN  [text |-> text,
                    mood |-> IF found = <<>> THEN DefaultMood ELSE found,
                    genres |-> GenresFor(text),
                    answers |-> resps,
                    r |-> RecommendResult(u, resps)] :
               resps \in [1..Len(GenresFor(text)) -> GenreResponses] } :
             text \in MoodTexts }]

\* The "recommend" button with the text typed and the catalog's answers to the
\* searches on record.
MoodRecommend ==
  \E c \in MoodCalls[USE_API] :
    RecommendWith(c.r, [op |-> "recommend", err |-> c.r.err, remote |-> c.r.remote,
                        text |-> c.text, mood |-> c.mood, genres |-> c.genres,
                        answers |-> c.answers, fetched |-> c.r.movies])

NextMood ==
  \/ MoodRecommend

SpecMood == Init /\ [][NextMood]_vars

\* =================================================================== claims
\* The ids of the favorites entries, head first.
FavIds == [i \in 1..Len(FavEntries(favorites)) |-> heap[FavEntries(favorites)[i].movie].id]

\* The normalized titles of the favorites entries, head first.
FavTitles ==
  [i \in 1..Len(FavEntries(favorites)) |->
     Lower(Strip(heap[FavEntries(favorites)[i].movie].title))]

RemoveAt(xs, i) == SubSeq(xs, 1, i - 1) \o SubSeq(xs, i + 1, Len(xs))

\* C1: whatever add and remove_by_title calls were made on the favorites list,
\* starting from the empty list, no two of its entries hold movies with the
\* same id.
C1_NoDuplicateIds ==
  \A i, j \in 1..Len(FavIds) : i # j => FavIds[i] # FavIds[j]

\* C1 witness: the list holds several entries and the last call was an add of
\* an id already present (rejected).
C1_Witness ==
  /\ Len(FavIds) >= 2
  /\ last.op = "add"
  /\ last.ret = "False"

\* C3: add(movie, rating) returns False and leaves the list as it was when an
\* entry already has the movie's id; otherwise it returns True and the list is
\* the old sequence of entries with one entry, holding that movie and that
\* rating, appended at the tail.
C3_AddContract ==
  [][last'.op = "add" =>
       IF \E i \in 1..Len(FavIds) : FavIds[i] = heap[last'.movie].id
         THEN /\ last'.ret = "False"
              /\ favorites' = favorites
         ELSE /\ last'.ret = "True"
              /\ FavEntries(favorites') =
                   Append(FavEntries(favorites),
                          [movie |-> last'.movie, user_rating |-> last'.user_rating])
              /\ favorites'.node[favorites'.tail].movie = last'.movie
    ]_vars

\* C3 witness: an id was added a second time, under another title and as another
\* object: the call returned False and exactly one entry has that id.
C3_Witness ==
  /\ last.op = "add"
  /\ last.ret = "False"
  /\ Cardinality({i \in 1..Len(FavIds) : FavIds[i] = heap[last.movie].id}) = 1
  /\ \E i \in 1..Len(FavIds) :
       /\ FavIds[i] = heap[last.movie].id
       /\ FavEntries(favorites)[i].movie # last.movie
       /\ heap[FavEntries(favorites)[i].movie].title # heap[last.movie].title

\* C4: when some entry's stripped, lower-cased title equals the stripped,
\* lower-cased argument, remove_by_title returns True and removes exactly the
\* first such entry from the head; every other entry, later entries with the
\* same title included, stays, in the same order, in traverse_forward().
C4_RemoveFirstMatch ==
  [][(/\ last'.op = "remove_by_title"
      /\ \E i \in 1..Len(FavTitles) : FavTitles[i] = Lower(Strip(last'.title)))
     => LET first == CHOOSE i \in 1..Len(FavTitles) :
                       /\ FavTitles[i] = Lower(Strip(last'.title))
                       /\ \A j \in 1..(i - 1) : FavTitles[j] # Lower(Strip(last'.title))
        IN  /\ last'.ret = "True"
            /\ FavEntries(favorites') = RemoveAt(FavEntries(favorites), first)
    ]_vars

\* C4 witness: a removal succeeded and an entry with the same normalized title
\* is still in the list, which holds another entry as well.
C4_Witness ==
  /\ last.op = "remove_by_title"
  /\ last.ret = "True"
  /\ Len(FavTitles) >= 2
  /\ \E i \in 1..Len(FavTitles) : FavTitles[i] = Lower(Strip(last.title))

\* C5: when no entry's stripped, lower-cased title equals the stripped,
\* lower-cased argument, remove_by_title returns False and the list (entries,
\* order, length) is left as it was; so it is on the empty list.
C5_RemoveMiss ==
  [][(/\ last'.op = "remove_by_title"
      /\ \A i \in 1..Len(FavTitles) : FavTitles[i] # Lower(Strip(last'.title)))
     => /\ last'.ret = "False"
        /\ favorites' = favorites
        /\ FavEntries(favorites') = FavEntries(favorites)
    ]_vars

\* C5 witness: a removal found nothing in a list that holds entries.
C5_Witness ==
  /\ last.op = "remove_by_title"
  /\ last.ret = "False"
  /\ Len(FavTitles) >= 2

\* C6: for every movie list L (empty, with repeats), replacing the staging list
\* by an empty one, appending the items of L at the tail one by one and then
\* calling traverse() gives exactly L, in order; the replacement discards
\* whatever the list held before.
C6_ReplaceAppendTraverse ==
  /\ last.op = "replace" => SLL_Traverse(search_results) = <<>>
  /\ last.op = "insert_end" => SLL_Traverse(search_results) = SubSeq(last.L, 1, last.k)
  /\ last.op = "traverse" => last.out = last.L

\* C6 witness: a list with a repeated movie and another one was appended over a
\* list that held other contents, and traversed.
C6_Witness ==
  /\ last.op = "traverse"
  /\ Len(last.L) >= 3
  /\ last.L[1] = last.L[3]
  /\ last.L[1] # last.L[2]
  /\ last.old # <<>>
  /\ last.old # last.L

\* The records the staging list holds, head first.
StagedMovies ==
  [i \in 1..Len(SLL_Traverse(search_results)) |-> heap[SLL_Traverse(search_results)[i]]]

\* The records and ratings the favorites list holds, head first.
FavView ==
  [i \in 1..Len(FavEntries(favorites)) |->
     [movie |-> heap[FavEntries(favorites)[i].movie],
      user_rating |-> FavEntries(favorites)[i].user_rating]]

\* The Movie objects the staging list / the favorites list refer to.
StagedObjects == {search_results.node[n].movie : n \in DOMAIN search_results.node}

FavObjects == {favorites.node[n].movie : n \in DOMAIN favorites.node}

SearchOps == {"search_title", "search_genre", "search_actor", "search_region", "search_multi"}

\* xs is ys with some elements left out.
RECURSIVE IsSubSeq(_, _)
IsSubSeq(xs, ys) ==
  IF xs = <<>> THEN TRUE
  ELSE IF ys = <<>> THEN FALSE
  ELSE IF Head(xs) = Head(ys) THEN IsSubSeq(Tail(xs), Tail(ys))
  ELSE IsSubSeq(xs, Tail(ys))

\* C2 (as claimed): when a search action fails with a fetch error, the staging
\* list and the favorites list are exactly what they were before the action.
C2_FetchErrorLeavesState ==
  [][(last'.op \in SearchOps /\ last'.err)
     => /\ StagedMovies' = StagedMovies
        /\ FavView' = FavView
    ]_vars

\* C7: after a search or recommendation that completes, the staging list holds
\* only records that action fetched, in fetch order (all of them for a search,
\* at least one per fetched id for a recommendation), and nothing of what it
\* held before.
C7_StagingReplaced ==
  (last.op \in SearchOps \cup {"recommend"} /\ ~last.err)
    => /\ IsSubSeq(StagedMovies, last.fetched)
       /\ last.op \in SearchOps => StagedMovies = last.fetched
       /\ \A i \in 1..Len(last.fetched) :
            \E j \in 1..Len(StagedMovies) : StagedMovies[j].id = last.fetched[i].id

\* C7 witness: a search staged records while a favorite still holds a record of
\* a list staged earlier, which is no longer in the staging list.
C7_Witness ==
  /\ last.op \in SearchOps
  /\ ~last.err
  /\ Len(StagedMovies) >= 2
  /\ FavObjects # {}
  /\ FavObjects \cap StagedObjects = {}

\* C8: get_by_index(p) returns the movie at zero-based position p when
\* 0 <= p < length and None for every other p (negative, the length or more, any
\* p on the empty list); add_to_favorites_handler leaves the staging list as it
\* is, reports "not found" exactly for those other p, and then leaves the
\* favorites list as it is.
C8_GetByIndex ==
  [][LET ms == SLL_Traverse(search_results)
     IN  /\ \A p \in -2..(Len(ms) + 2) :
              SLL_GetByIndex(search_results, p)
                = IF 0 <= p /\ p < Len(ms) THEN ms[p + 1] ELSE NULL
         /\ last'.op = "add_to_favorites"
              => /\ search_results' = search_results
                 /\ last'.ret = "NotFound" <=> ~(0 <= last'.idx /\ last'.idx < Len(ms))
                 /\ last'.ret = "NotFound" => favorites' = favorites
    ]_vars

\* C8 witness: the handler was given the length of a staged list as position,
\* with a favorite in the list.
C8_Witness ==
  /\ last.op = "add_to_favorites"
  /\ last.ret = "NotFound"
  /\ Len(StagedMovies) >= 2
  /\ last.idx = Len(StagedMovies)
  /\ FavObjects # {}

\* C9 (as claimed): without a credential every search and recommendation stages
\* the sample records and sends no request; with one, no action stages sample
\* data instead of fetching, whatever its inputs.
C9_DemoModeOnlyBySwitch ==
  last.op \in SearchOps \cup {"recommend"}
    => /\ ~USE_API => (StagedMovies = get_mock_movies /\ ~last.remote)
       /\ USE_API => last.remote

C11_StagingFrame ==
  [][/\ last'.op \in {"add_to_favorites", "remove_favorite"}
          => /\ search_results' = search_results
             /\ StagedMovies' = StagedMovies
     /\ (search_results' # search_results \/ StagedMovies' # StagedMovies)
          => last'.op \in SearchOps \cup {"recommend"}
    ]_vars

\* C11 witness: a movie of a staged list of several was added to the favorites.
C11_Witness ==
  /\ last.op = "add_to_favorites"
  /\ last.ret = "True"
  /\ Len(StagedMovies) >= 2
  /\ FavObjects \subseteq StagedObjects
  /\ FavObjects # {}

BatchFails(fn, resp) ==
  LET reached == Min(Len(resp.results), DefaultMaxResults)
  IN  IF fn = "tmdb_search_by_actor"
        THEN \/ ~resp.ok
             \/ resp.persons /\ ~resp.credits_ok
             \/ resp.persons /\ resp.video_fail \in 1..reached
        ELSE \/ ~resp.ok
             \/ resp.video_fail \in 1..reached

\* C13: when a request fails while a wrapper function builds its result (the
\* list request, or the videos request of the k-th item after k-1 movies were
\* built), the call raises and hands back no list, not even the movies built so
\* far; when none fails it hands back one movie per item up to max_results.
C13_NoPartialList ==
  (last.op \in WrapperNames /\ USE_API)
    => IF BatchFails(last.op, last.resp)
         THEN /\ last.out.err
              /\ last.out.movies = <<>>
         ELSE /\ ~last.out.err
              /\ (last.op # "tmdb_search_by_actor" \/ last.resp.persons)
                   => /\ Len(last.out.movies) = Min(Len(last.resp.results), DefaultMaxResults)
                      /\ \A i \in 1..Len(last.out.movies) :
                           last.out.movies[i].id = last.resp.results[i].id

\* C13 witness: the videos request of the third item failed after two movies
\* were built, and the search raised.
C13_Witness ==
  /\ last.op = "tmdb_search"
  /\ USE_API
  /\ last.resp.ok
  /\ last.resp.video_fail = 3
  /\ last.out.err

\* The score of each row of MOOD_KEYWORDS for a text: how many keywords of the
\* row occur in the text.
MoodScore(text) ==
  [i \in 1..Len(MOOD_KEYWORDS) |->
     Cardinality({k \in 1..Len(MOOD_KEYWORDS[i].keys) :
        \E a \in 1..Len(text), b \in 1..Len(text) :
           SubSeq(text, a, b) = MOOD_KEYWORDS[i].keys[k]})]

\* C14: analyze_mood(text) scores each of the six moods by the number of its
\* keywords that occur in text; it returns the mood with the highest positive
\* score, the one declared first among equals, and None when every score is
\* zero, as for the empty text.  A text with one keyword of each of the first two
\* moods gives the first mood.
C14_AnalyzeMood ==
  last.op = "analyze_mood"
    => LET score == MoodScore(last.text)
       IN  /\ Len(MOOD_KEYWORDS) = 6
           /\ (\A i \in DOMAIN score : score[i] = 0) <=> last.out = <<>>
           /\ last.text = <<>> => last.out = <<>>
           /\ last.out # <<>>
                => \E i \in DOMAIN score :
                     /\ last.out = MOOD_KEYWORDS[i].mood
                     /\ score[i] > 0
                     /\ \A j \in DOMAIN score : score[j] <= score[i]
                     /\ \A j \in 1..(i - 1) : score[j] < score[i]
           /\ (score[1] = 1 /\ score[2] = 1 /\ \A j \in 3..6 : score[j] = 0)
                => last.out = MOOD_KEYWORDS[1].mood

\* C14 witness: the text names the second mood before the first, one keyword
\* each, and the first mood of the table is returned.
C14_Witness ==
  /\ last.op = "analyze_mood"
  /\ last.text = <<38627, 36942, 38283, 24515>>
  /\ last.out = <<38283, 24515>>

\* The positions of the videos on the target platform that satisfy P.
Bucket(videos, P(_)) ==
  {i \in 1..Len(videos) : videos[i].site = "YouTube" /\ P(videos[i])}

\* The URL of the video at the lowest position of a bucket.
FirstUrl(videos, B) ==
  "https://www.youtube.com/watch?v="
    \o videos[CHOOSE i \in B : \A j \in B : i <= j].key

\* C15: in live mode, for every list of candidate videos, tmdb_get_trailer
\* returns the URL of the first video, in list order, of the first non-empty
\* bucket among (1) YouTube trailers tagged zh, zh-TW or zh-CN, (2) YouTube
\* trailers, (3) YouTube teasers, (4) other YouTube videos that are neither clips
\* nor featurettes; it returns None exactly when all four are empty.  A list with
\* one YouTube teaser and no YouTube trailer gives the teaser's URL.
C15_TrailerSelection ==
  (last.op = "tmdb_get_trailer" /\ USE_API)
    => LET vs == last.videos
           b1 == Bucket(vs, LAMBDA v : v.type = "Trailer" /\ v.iso_639_1 \in {"zh", "zh-TW", "zh-CN"})
           b2 == Bucket(vs, LAMBDA v : v.type = "Trailer")
           b3 == Bucket(vs, LAMBDA v : v.type = "Teaser")
           b4 == Bucket(vs, LAMBDA v : v.type \notin {"Trailer", "Teaser", "Clip", "Featurette"})
       IN  /\ last.out = IF b1 # {} THEN FirstUrl(vs, b1)
                         ELSE IF b2 # {} THEN FirstUrl(vs, b2)
                         ELSE IF b3 # {} THEN FirstUrl(vs, b3)
                         ELSE IF b4 # {} THEN FirstUrl(vs, b4)
                         ELSE None
           /\ last.out = None <=> (b1 = {} /\ b2 = {} /\ b3 = {} /\ b4 = {})
           /\ (b2 = {} /\ Cardinality(b3) = 1) => last.out = FirstUrl(vs, b3)

\* C15 witness: a YouTube teaser listed behind another YouTube video that is no
\* trailer, and behind a trailer on another site, is the one selected.
C15_Witness ==
  /\ last.op = "tmdb_get_trailer"
  /\ USE_API
  /\ Len(last.videos) = 3
  /\ last.videos[1].type = "Behind the Scenes"
  /\ last.videos[2].site = "Vimeo"
  /\ last.videos[3].type = "Teaser"
  /\ last.out = "https://www.youtube.com/watch?v=k3"

\* The string an item holds under a key, empty when the key is missing.
TitleField(item, key) == IF key \in DOMAIN item THEN item[key] ELSE <<>>

\* The first non-empty string of a sequence of strings.
FirstNonEmpty(xs) ==
  xs[CHOOSE i \in 1..Len(xs) : xs[i] # <<>> /\ \A j \in 1..(i - 1) : xs[j] = <<>>]

\* C16: _fetch resolves the title to the first available (non-empty) of: the
\* localized title (title_zh, else name_zh); the original title if one of its
\* characters lies in U+4E00..U+9FFF; the default title (title, else name); the
\* placeholder.  Without a localized title and with a CJK original title the
\* result is the original title as it is, whatever the default title; the
\* result is never empty.
C16_TitleResolution ==
  last.op = "_fetch"
    => LET it        == last.item
           original  == TitleField(it, "original_title")
           localized == FirstNonEmpty(<<TitleField(it, "title_zh"), TitleField(it, "name_zh"),
                                        <<0>>>>)
           default   == FirstNonEmpty(<<TitleField(it, "title"), TitleField(it, "name"), <<0>>>>)
           cjk       == \E i \in 1..Len(original) : original[i] \in 19968..40959
           order     == << IF localized = <<0>> THEN <<>> ELSE localized,
                           IF cjk THEN original ELSE <<>>,
                           IF default = <<0>> THEN <<>> ELSE default,
                           <<26410, 21629, 21517, 38651, 24433>> >>
       IN  /\ last.out.title = FirstNonEmpty(order)
           /\ last.out.title # <<>>
           /\ (localized = <<0>> /\ cjk) => last.out.title = original

\* C16 witness: no localized title, an original title with one ideograph among
\* Latin letters, and a default title: the original title is the result.
C16_Witness ==
  /\ last.op = "_fetch"
  /\ "title_zh" \notin DOMAIN last.item
  /\ "name_zh" \in DOMAIN last.item
  /\ last.item["name_zh"] = <<>>
  /\ "title" \in DOMAIN last.item
  /\ last.item["title"] = <<84, 100>>
  /\ "original_title" \in DOMAIN last.item
  /\ last.item["original_title"] = <<84, 99, 19968, 33>>
  /\ last.out.title = <<84, 99, 19968, 33>>

\* The string ends with "...".
EndsWithEllipsis(x) == Len(x) >= 3 /\ SubSeq(x, Len(x) - 2, Len(x)) = <<46, 46, 46>>

\* C17 (as claimed): every row of create_movie_df shows the placeholder when the
\* overview is empty, the first 120 characters of the overview followed by "..."
\* when the overview is longer than 120 characters, and the overview without
\* "..." when it has 120 characters or fewer.
C17_SynopsisColumn ==
  last.op = "create_movie_df"
    => /\ Len(last.out) = Len(last.movies)
       /\ \A i \in 1..Len(last.movies) :
            LET overview == last.movies[i].overview
                synopsis == last.out[i].synopsis
            IN  IF overview = <<>>
                  THEN synopsis = <<65288, 28961, 36039, 26009, 65289>>
                ELSE IF Len(overview) > 120
                  THEN synopsis = SubSeq(overview, 1, 120) \o <<46, 46, 46>>
                ELSE /\ synopsis = overview
                     /\ ~EndsWithEllipsis(synopsis)

\* The nodes reached from cur by following prev.
RECURSIVE DLL_WalkBack(_, _)
DLL_WalkBack(node, cur) ==
  IF cur = NULL THEN <<>>
  ELSE <<cur>> \o DLL_WalkBack(node, node[cur].prev)

Reverse(xs) == [i \in 1..Len(xs) |-> xs[Len(xs) + 1 - i]]

\* C18: after any add and remove_by_title calls the favorites list is well
\* linked: no pointer leads to a removed node; head is None iff tail is None;
\* head.prev and tail.next are None; n.next.prev is n for every node n with a
\* next; tail is the last node reached from head by next; following prev from
\* tail visits the nodes of traverse_forward() in reverse order; and the nodes
\* alive are exactly those reached from head.
C18_WellLinked ==
  LET node == favorites.node
      ptrs == (DOMAIN node) \cup {NULL}
  IN  /\ favorites.head \in ptrs
      /\ favorites.tail \in ptrs
      /\ \A n \in DOMAIN node : node[n].next \in ptrs /\ node[n].prev \in ptrs
      /\ favorites.head = NULL <=> favorites.tail = NULL
      /\ favorites.head # NULL => node[favorites.head].prev = NULL
      /\ favorites.tail # NULL => node[favorites.tail].next = NULL
      /\ \A n \in DOMAIN node :
           node[n].next # NULL => node[node[n].next].prev = n
      /\ LET fwd == DLL_TraverseForward(favorites)
         IN  /\ fwd # <<>> => fwd[Len(fwd)] = favorites.tail
             /\ DLL_WalkBack(node, favorites.tail) = Reverse(fwd)
             /\ {fwd[i] : i \in 1..Len(fwd)} = DOMAIN node
             /\ \A i, j \in 1..Len(fwd) : i # j => fwd[i] # fwd[j]

\* C18 witness: after removals and adds three nodes are linked in an order
\* other than that of their addresses (a node ahead of the tail was removed and
\* a later node took its address).
C18_Witness ==
  /\ last.op = "add"
  /\ last.ret = "True"
  /\ last.gone # {}
  /\ Len(DLL_TraverseForward(favorites)) = 3
  /\ DLL_TraverseForward(favorites) # <<1, 2, 3>>

\* C19: once an entry with id i was removed and no entry has id i, add of a
\* movie with id i returns True and links it behind the tail the removal left
\* (as the only node when the removal emptied the list), the entries there
\* staying as they are, none lost or repeated; a removal leaves tail at the last
\* node reached from head, whichever node it took out.
C19_ReAddAtTail ==
  [][/\ (/\ last'.op = "add"
          /\ heap[last'.movie].id \in last.gone
          /\ \A i \in 1..Len(FavIds) : FavIds[i] # heap[last'.movie].id)
         => /\ last'.ret = "True"
            /\ FavEntries(favorites') =
                 Append(FavEntries(favorites),
                        [movie |-> last'.movie, user_rating |-> last'.user_rating])
            /\ favorites'.node[favorites'.tail].prev = favorites.tail
            /\ favorites.tail # NULL => favorites'.node[favorites.tail].next = favorites'.tail
            /\ favorites.tail = NULL => favorites'.head = favorites'.tail
     /\ (last'.op = "remove_by_title" /\ last'.ret = "True")
         => LET fwd == DLL_TraverseForward(favorites')
            IN  /\ Len(fwd) = Len(DLL_TraverseForward(favorites)) - 1
                /\ favorites'.tail = IF fwd = <<>> THEN NULL ELSE fwd[Len(fwd)]
                /\ favorites'.head = IF fwd = <<>> THEN NULL ELSE fwd[1]
    ]_vars

\* C19 witness: an id that was removed is back, as the last of three entries.
C19_Witness ==
  /\ last.op = "add"
  /\ last.ret = "True"
  /\ heap[last.movie].id \in last.gone
  /\ Len(FavIds) = 3
  /\ FavIds[3] = heap[last.movie].id

\* The elements of a sequence of records whose id no earlier element has.
FirstById(ms) ==
  LET keep == {i \in 1..Len(ms) : \A j \in 1..(i - 1) : ms[j].id # ms[i].id}
      nth(k) == CHOOSE i \in keep : Cardinality({j \in keep : j < i}) = k - 1
  IN  [k \in 1..Cardinality(keep) |-> ms[nth(k)]]

\* C20: after a recommendation that completes in live mode no two staged records
\* have the same id: the searches are those of the first two genres of the mood,
\* each gives at most 5 movies, their results are joined in genre order and the
\* first record of each id is staged, in that order, so at most 10 records are
\* staged; a text that is not classified is served with the genres of the
\* default mood.
C20_MoodResults ==
  (last.op = "recommend" /\ USE_API /\ ~last.err)
    => /\ \A i, j \in 1..Len(StagedMovies) :
            i # j => StagedMovies[i].id # StagedMovies[j].id
       /\ Len(last.answers) = 2
       /\ last.genres = SubSeq(MoodToGenre(last.mood), 1, 2)
       /\ LET first  == SubSeq(last.answers[1].results, 1, Min(5, Len(last.answers[1].results)))
              second == SubSeq(last.answers[2].results, 1, Min(5, Len(last.answers[2].results)))
          IN  [i \in 1..Len(last.fetched) |-> last.fetched[i].id]
                = [i \in 1..Len(first \o second) |-> (first \o second)[i].id]
       /\ StagedMovies = FirstById(last.fetched)
       /\ Len(StagedMovies) <= 10
       /\ AnalyzeMood(last.text) = <<>> => last.mood = <<38283, 24515>>
       /\ AnalyzeMood(last.text) # <<>> => last.mood = AnalyzeMood(last.text)

\* C20 witness: for a text that is not classified both searches gave more than
\* five items, some ids came back twice, and fewer records than were fetched
\* are staged.
C20_Witness ==
  /\ last.op = "recommend"
  /\ USE_API
  /\ ~last.err
  /\ last.text = <<>>
  /\ Len(last.answers[1].results) > 5
  /\ Len(last.fetched) = 8
  /\ Len(StagedMovies) = 5

====
